---------------------------- MODULE Spec2Model ----------------------------
(***************************************************************************)
(* A model of QR-Code-Maker (src/src/qr_code_maker.py).                    *)
(*                                                                         *)
(* Text is a sequence of one-character strings, so that trimming,          *)
(* filtering and wrapping are computed character by character as the       *)
(* Python code computes them.                                              *)
(*                                                                         *)
(* The module holds one state machine per part of the program:             *)
(*   Spec        process_csv: the batch loop over the rows of a CSV        *)
(*   SpecClean   clean_filename applied once and twice                     *)
(*   SpecQr      create_qr_code called with a payload and a target size    *)
(*   SpecFit     create_full_page_image: the URL shrink-to-fit loop        *)
(*   SpecPaste   create_full_page_image: the two pastes of the QR image    *)
(* The variables of the parts a specification does not run stay at their   *)
(* idle values.                                                            *)
(***************************************************************************)
EXTENDS Integers, Sequences, FiniteSets, TLC

VARIABLES
    \* process_csv
    csvExists,      \* os.path.exists(file_path) of the CSV
    saveDirExists,  \* os.path.exists(save_to_dir)
    entries,        \* list(reader): the rows of the CSV, each a list of fields
    index,          \* number of rows the for loop has consumed
    pc,             \* "idle" | "start" | "loop" | "done" | "raised"
    calls,          \* the create_full_page_image calls made, in order
    files,          \* the output directory: file name -> image
    log,            \* the lines printed, in order
    error,          \* the exception that left process_csv, or "none"
    \* clean_filename
    cf_text,        \* the argument
    cf_pc,          \* "idle" | "input" | "once" | "twice"
    cf_once,        \* clean_filename(text)
    cf_twice,       \* clean_filename(clean_filename(text))
    \* create_qr_code
    q_url,          \* the payload
    qr_size,        \* the target pixel size
    q_version,      \* the symbol version the encoder picks for the payload
    q_pc,           \* "idle" | "call" | "returned" | "raised"
    q_img,          \* the image returned, or NoImage
    q_error,        \* the exception the caller receives, or "none"
    q_makeCalls,    \* how many times segno.make was called
    \* create_full_page_image, URL shrink-to-fit loop
    url,            \* the URL text
    font_path,      \* the font file given: a record describing what is at the path
    f_pc,           \* "idle" | "encode" | "wrap" | "loop" | "done" | "raised"
    font_size,      \* the loop's font size
    url_font,       \* the font get_font returned last
    wrapped_url,    \* the wrapped URL lines
    fits,           \* the loop's flag after the last measuring pass
    passes,         \* measuring passes made
    \* create_full_page_image, pasting the QR image
    p_matrix,       \* the symbol: module (row, col) -> TRUE when dark
    p_light,        \* the colour bytes of a transparent (light) pixel
    p_pc,           \* "idle" | "encode" | "border" | "page" | "done"
    img_qr,         \* the QR image: pixel (x, y) -> RGBA
    bordered_qr,    \* the bordered square
    img,            \* the page's pixels under the bordered square
    \* create_qr_code called twice for one symbol
    sc_url,         \* the payload of both calls
    sc_version,     \* the symbol version the encoder picks for the payload
    sc_sizes,       \* the target sizes of the first and of the second call
    sc_imgs,        \* the images returned so far, in call order
    sc_pc,          \* "idle" | "first" | "second" | "done" | "raised"
    \* create_full_page_image, the canvas and the title block
    pg_raw,         \* the title as the caller holds it (CSV field, entry box)
    pg_font_path,   \* the font file given
    pg_pc,          \* "idle" | "call" | "canvas" | "wrap" | "draw" | "qr"
    pg_title,       \* the title argument
    pg_img,         \* the canvas: mode and size
    wrapped_title,  \* the wrapped title lines
    current_y,      \* the vertical cursor
    drawn,          \* the draw.text calls made for the title, in order
    pg_url,         \* the URL argument
    pg_version,     \* the symbol version the encoder picks for the URL
    qr_y,           \* the y of the QR image on the page
    qr_box,         \* the bordered QR as pasted: its corner and its size
    url_drawn,      \* the draw.text calls made for the URL, in order
    \* get_font called once
    gf_path,        \* the font_path argument
    gf_size,        \* the font_size argument
    gf_pc,          \* "idle" | "call" | "returned" | "raised"
    gf_font,        \* the font returned
    gf_log,         \* the lines printed
    gf_error,       \* the exception the caller receives, or "none"
    \* QRCodeMakerGUI (main.py)
    single_title,       \* the title entry
    single_url,         \* the URL entry
    csv_file_path,      \* the CSV entry: what is at the path, and its rows
    single_button,      \* "normal" | "disabled"
    csv_process_button, \* "normal" | "disabled"
    progress,           \* the progress bar: "stopped" | "running"
    status_label,       \* the status text
    thread,             \* the worker thread: its target and arguments
    after_queue,        \* callbacks given to root.after, not yet run
    dialog,             \* the last message box shown
    clicks,             \* clicks on the two generate buttons so far
    last_button,        \* the generate button clicked last
    work_calls          \* calls of create_full_page_image and process_csv

csvVars == <<csvExists, saveDirExists, entries, index, pc, calls, files, log, error>>
cleanVars == <<cf_text, cf_pc, cf_once, cf_twice>>
qrVars == <<q_url, qr_size, q_version, q_pc, q_img, q_error, q_makeCalls>>
fitVars == <<url, font_path, f_pc, font_size, url_font, wrapped_url, fits, passes>>
pasteVars == <<p_matrix, p_light, p_pc, img_qr, bordered_qr, img>>
scaleVars == <<sc_url, sc_version, sc_sizes, sc_imgs, sc_pc>>
placeVars == <<pg_url, pg_version, qr_y, qr_box, url_drawn>>
pageVars == <<pg_raw, pg_font_path, pg_pc, pg_title, pg_img, wrapped_title,
              current_y, drawn, placeVars>>
fontVars == <<gf_path, gf_size, gf_pc, gf_font, gf_log, gf_error>>
guiVars == <<single_title, single_url, csv_file_path, single_button,
             csv_process_button, progress, status_label, thread, after_queue,
             dialog, clicks, last_button, work_calls>>
vars == <<csvVars, cleanVars, qrVars, fitVars, pasteVars, scaleVars, pageVars, fontVars, guiVars>>

-----------------------------------------------------------------------------
(* Text: characters and the str methods the program uses.                  *)

\* n copies of character c
Rep(c, n) == [i \in 1..n |-> c]

\* The characters str.strip() and str.rstrip() remove.
Whitespace == {" ", "\t", "\n", "\r"}

Lower == {"a", "b", "c", "d", "e", "f", "g", "h", "i", "j", "k", "l", "m",
          "n", "o", "p", "q", "r", "s", "t", "u", "v", "w", "x", "y", "z"}
Upper == {"A", "B", "C", "D", "E", "F", "G", "H", "I", "J", "K", "L", "M",
          "N", "O", "P", "Q", "R", "S", "T", "U", "V", "W", "X", "Y", "Z"}
Digit == {"0", "1", "2", "3", "4", "5", "6", "7", "8", "9"}

\* c.isalnum()
isalnum(c) == c \in Lower \cup Upper \cup Digit

\* The last position of s[1..i] that holds no whitespace, 0 when none does.
RECURSIVE LastNonSpace(_, _)
LastNonSpace(s, i) ==
    IF i = 0 THEN 0
    ELSE IF s[i] \notin Whitespace THEN i
    ELSE LastNonSpace(s, i - 1)

\* The first position of s[i..] that holds no whitespace, Len(s) + 1 when
\* none does.
RECURSIVE FirstNonSpace(_, _)
FirstNonSpace(s, i) ==
    IF i > Len(s) THEN i
    ELSE IF s[i] \notin Whitespace THEN i
    ELSE FirstNonSpace(s, i + 1)

\* s.rstrip()
rstrip(s) == SubSeq(s, 1, LastNonSpace(s, Len(s)))

\* s.strip()
strip(s) == SubSeq(s, FirstNonSpace(s, 1), LastNonSpace(s, Len(s)))

-----------------------------------------------------------------------------
(* clean_filename                                                          *)

\* The test of the generator expression: c.isalnum() or c in (' ', '_', '-')
KeepChar(c) == isalnum(c) \/ c \in {" ", "_", "-"}

\* Plausible slips of clean_filename, used to show the claims read the code.
clean_filename_NoStrip(text) == SelectSeq(text, KeepChar)
clean_filename_StripFirst(text) == SelectSeq(rstrip(text), KeepChar)
clean_filename_DropHyphen(text) ==
    rstrip(SelectSeq(text, LAMBDA c : isalnum(c) \/ c \in {" ", "_"}))

\* ''.join(c for c in text if c.isalnum() or c in (' ', '_', '-')).rstrip()
clean_filename(text) == rstrip(SelectSeq(text, KeepChar))

-----------------------------------------------------------------------------
(* Idle values: the state of a part that a specification does not run.     *)

NoImage == [width |-> 0, height |-> 0]

CsvIdle ==
    /\ csvExists = FALSE /\ saveDirExists = FALSE /\ entries = <<>> /\ index = 0
    /\ pc = "idle" /\ calls = <<>> /\ files = <<>> /\ log = <<>> /\ error = "none"

CleanIdle ==
    /\ cf_text = <<>> /\ cf_pc = "idle" /\ cf_once = <<>> /\ cf_twice = <<>>

QrIdle ==
    /\ q_url = <<>> /\ qr_size = 0 /\ q_version = 0 /\ q_pc = "idle"
    /\ q_img = NoImage /\ q_error = "none" /\ q_makeCalls = 0

FitIdle ==
    /\ url = <<>> /\ font_path = [at |-> "None", em |-> 0] /\ f_pc = "idle"
    /\ font_size = 0 /\ url_font = [face |-> "none", advance |-> 0]
    /\ wrapped_url = <<>> /\ fits = FALSE /\ passes = 0

PasteIdle ==
    /\ p_matrix = <<>> /\ p_light = 0 /\ p_pc = "idle"
    /\ img_qr = <<>> /\ bordered_qr = <<>> /\ img = <<>>

ScaleIdle ==
    /\ sc_url = <<>> /\ sc_version = 0 /\ sc_sizes = <<0, 0>>
    /\ sc_imgs = <<>> /\ sc_pc = "idle"

NoFont == [face |-> "none", advance |-> 0]

FontIdle ==
    /\ gf_path = [at |-> "None", em |-> 0] /\ gf_size = 0 /\ gf_pc = "idle"
    /\ gf_font = NoFont /\ gf_log = <<>> /\ gf_error = "none"

NoThread == [target |-> "none"]

NoCsv == [at |-> "none", rows |-> <<>>]

GuiIdle ==
    /\ single_title = <<>> /\ single_url = <<>> /\ csv_file_path = NoCsv
    /\ single_button = "idle" /\ csv_process_button = "idle"
    /\ progress = "idle" /\ status_label = "idle" /\ thread = NoThread
    /\ after_queue = <<>> /\ dialog = "none" /\ clicks = 0
    /\ last_button = "none" /\ work_calls = <<>>

NoPage == [mode |-> "none", width |-> 0, height |-> 0]

NoBox == [x |-> 0, y |-> 0, width |-> 0, height |-> 0]

PageIdle ==
    /\ pg_raw = <<>> /\ pg_font_path = [at |-> "None", em |-> 0]
    /\ pg_pc = "idle" /\ pg_title = <<>> /\ pg_img = NoPage
    /\ wrapped_title = <<>> /\ current_y = 0 /\ drawn = <<>>
    /\ pg_url = <<>> /\ pg_version = 0 /\ qr_y = 0 /\ qr_box = NoBox
    /\ url_drawn = <<>>

-----------------------------------------------------------------------------
(* SpecClean: clean_filename on every text of up to MaxTextLen characters  *)
(* over CleanAlphabet, applied once and then to its own result.            *)

MaxTextLen == 3

\* One character of each kind clean_filename tells apart: a letter, a digit,
\* the three kept symbols, a removed symbol and a whitespace that is no space.
CleanAlphabet == {"a", "7", " ", "_", "-", "!", "\t"}

TextsUpTo(n) == UNION {[1..k -> CleanAlphabet] : k \in 0..n}

InitClean ==
    /\ cf_text \in TextsUpTo(MaxTextLen)
    /\ cf_pc = "input" /\ cf_once = <<>> /\ cf_twice = <<>>
    /\ CsvIdle /\ QrIdle /\ FitIdle /\ PasteIdle /\ ScaleIdle /\ PageIdle /\ FontIdle /\ GuiIdle

cleanOther == <<csvVars, qrVars, fitVars, pasteVars, scaleVars, pageVars, fontVars, guiVars>>

\* clean_title = clean_filename(title)
CleanOnce ==
    /\ cf_pc = "input"
    /\ cf_once' = clean_filename(cf_text)
    /\ cf_pc' = "once"
    /\ UNCHANGED <<cf_text, cf_twice, cleanOther>>

\* clean_filename applied to a name that is already clean
CleanTwice ==
    /\ cf_pc = "once"
    /\ cf_twice' = clean_filename(cf_once)
    /\ cf_pc' = "twice"
    /\ UNCHANGED <<cf_text, cf_once, cleanOther>>

NextClean == CleanOnce \/ CleanTwice

SpecClean == InitClean /\ [][NextClean]_vars

\* An alphanumeric, a space, an underscore or a hyphen.
AllowedChar(c) == c \in Lower \cup Upper \cup Digit \cup {" ", "_", "-"}

\* The positions of text that hold an allowed character.
KeptPositions(text) == {i \in 1..Len(text) : AllowedChar(text[i])}

\* s is t with the positions outside P removed, order kept.
IsSelection(s, t, P) ==
    /\ Len(s) = Cardinality(P)
    /\ \A i \in P : s[Cardinality({j \in P : j <= i})] = t[i]

\* C7 (as stated): for every non-empty title the result of clean_filename
\* has no leading and no trailing whitespace.
C7_NoLeadingNoTrailingWhitespace ==
    (cf_pc \in {"once", "twice"} /\ cf_text # <<>> /\ cf_once # <<>>) =>
        /\ cf_once[1] \notin Whitespace
        /\ cf_once[Len(cf_once)] \notin Whitespace

\* C7 (amended): for every non-empty title the result of clean_filename has
\* no trailing whitespace; leading spaces of the title are kept.
C7_NoTrailingWhitespace ==
    (cf_pc \in {"once", "twice"} /\ cf_text # <<>>) =>
        /\ cf_once # <<>> => cf_once[Len(cf_once)] \notin Whitespace
        /\ (cf_text[1] = " " /\ cf_once # <<>>) => cf_once[1] = " "

\* C7 witness: a title with a leading and a trailing space has been cleaned.
C7_Witness ==
    /\ cf_pc = "once"
    /\ cf_text = <<" ", "a", " ">>
    /\ cf_once = <<" ", "a">>

\* C8: clean_filename returns the text with every character that is not
\* alphanumeric, space, underscore or hyphen removed, the others kept in
\* order, and trailing whitespace trimmed; the output holds only
\* alphanumerics, spaces, underscores and hyphens.
C8_FilterKeepsOrderAndTrims ==
    cf_pc \in {"once", "twice"} =>
        /\ \A i \in 1..Len(cf_once) : AllowedChar(cf_once[i])
        /\ \E k \in 0..Len(cf_text) :
              /\ IsSelection(cf_once \o Rep(" ", k), cf_text, KeptPositions(cf_text))
              /\ cf_once # <<>> => cf_once[Len(cf_once)] # " "

\* C8 witness: a text with a removed symbol and a trailing space.
C8_Witness ==
    /\ cf_pc = "once"
    /\ cf_text = <<"a", "!", " ">>
    /\ cf_once = <<"a">>

\* C9: clean_filename is idempotent: applying it to its own result changes
\* nothing.
C9_Idempotent ==
    cf_pc = "twice" => cf_twice = cf_once

\* C9 witness: the second application has run on a text the first one changed.
C9_Witness ==
    /\ cf_pc = "twice"
    /\ cf_text = <<"-", "!", " ">>
    /\ cf_once = <<"-">>
    /\ cf_twice = <<"-">>

-----------------------------------------------------------------------------
(* The QR encoder as create_qr_code and process_csv see it.                *)

\* The most bytes a version 40 symbol holds at error level H (error='H').
ByteCapacityH == 1273

\* segno.make(url, error='H'): the exception it raises, or "none".
\* An empty payload is refused; so is one beyond the largest symbol.
segno_make(content) ==
    IF Len(content) = 0 THEN "ValueError"
    ELSE IF Len(content) > ByteCapacityH THEN "DataOverflowError"
    ELSE "none"

-----------------------------------------------------------------------------
(* Spec: process_csv.  A composed page is kept as the (title, url) it was  *)
(* composed from: composition is a function of its arguments.              *)

MaxRows == 3

T_Title == <<"T", "i", "t", "l", "e">>
T_URL == <<"U", "R", "L">>
TitleA == <<"E", "v", "e", "n", "t">>
TitleAPadded == <<" ", "E", "v", "e", "n", "t", "!">>
TitleB == <<"M", "y", " ", "Q", "R">>
UrlA == <<"h", "t", "t", "p", ":", "/", "/", "a", ".", "i", "o">>
UrlB == <<" ", "h", "t", "t", "p", ":", "/", "/", "b", ".", "i", "o", " ">>
UrlBlank == <<" ", "\t">>
UrlTooLong == Rep("a", ByteCapacityH + 1)

\* The rows a CSV of the model is made of: a blank line, a row of one
\* column, the header, valid rows (one of three columns), a row with no
\* title, rows with a blank and with an empty URL, a row too long to encode.
Rows ==
    { <<>>,
      <<TitleA>>,
      <<T_Title, T_URL>>,
      <<TitleA, UrlA>>,
      <<TitleAPadded, UrlB>>,
      <<TitleB, UrlB, TitleA>>,
      <<<<>>, UrlA>>,
      <<TitleA, UrlBlank>>,
      <<TitleB, <<>>>>,
      <<TitleB, UrlTooLong>> }

CsvFiles == UNION {[1..k -> Rows] : k \in 0..MaxRows}

\* create_full_page_image(title, url, font_path, save_to_dir) as a call:
\* the exception create_qr_code lets through, or the page.
create_full_page_image(title, u) ==
    [raised |-> segno_make(u), title |-> title, url |-> u]

\* len(entry) < 2
EntryTooShort(entry) == Len(entry) < 2

\* title, url = entry[0].strip(), entry[1].strip()
EntryUrl_NoStrip(entry) == entry[2]
EntryUrl(entry) == strip(entry[2])
EntryTitle(entry) == strip(entry[1])

\* not url
UrlMissing(u) == u = <<>>

\* f"{clean_title}.png"
FileName(title) == clean_filename(title) \o <<".", "p", "n", "g">>

Init ==
    /\ csvExists \in BOOLEAN
    /\ saveDirExists \in BOOLEAN
    /\ entries \in (IF csvExists THEN CsvFiles ELSE {<<>>})
    /\ index = 0 /\ pc = "start" /\ calls = <<>> /\ files = <<>>
    /\ log = <<>> /\ error = "none"
    /\ CleanIdle /\ QrIdle /\ FitIdle /\ PasteIdle /\ ScaleIdle /\ PageIdle /\ FontIdle /\ GuiIdle

csvOther == <<cleanVars, qrVars, fitVars, pasteVars, scaleVars, pageVars, fontVars, guiVars>>

\* Lines 196-208: create the output directory, open and read the CSV.
OpenCsv ==
    /\ pc = "start" /\ csvExists
    /\ saveDirExists' = TRUE
    /\ log' = IF saveDirExists THEN log ELSE Append(log, [kind |-> "created", row |-> 0])
    /\ pc' = "loop"
    /\ UNCHANGED <<csvExists, entries, index, calls, files, error, csvOther>>

\* A slip: a CSV that cannot be opened is read as an empty one.
OpenCsvMissing_AsEmpty ==
    /\ pc = "start" /\ ~csvExists
    /\ saveDirExists' = TRUE
    /\ log' = IF saveDirExists THEN log ELSE Append(log, [kind |-> "created", row |-> 0])
    /\ pc' = "loop"
    /\ UNCHANGED <<csvExists, entries, index, calls, files, error, csvOther>>

\* Lines 196-204: the directory is created, then open() raises.
OpenCsvMissing ==
    /\ pc = "start" /\ ~csvExists
    /\ saveDirExists' = TRUE
    /\ log' = IF saveDirExists THEN log ELSE Append(log, [kind |-> "created", row |-> 0])
    /\ pc' = "raised"
    /\ error' = "FileNotFoundError"
    /\ UNCHANGED <<csvExists, entries, index, calls, files, csvOther>>

\* Lines 210-212: a row of fewer than two columns.
SkipInvalidEntry ==
    /\ pc = "loop" /\ index < Len(entries)
    /\ EntryTooShort(entries[index + 1])
    /\ index' = index + 1
    /\ log' = Append(log, [kind |-> "skip_invalid", row |-> index + 1])
    /\ UNCHANGED <<csvExists, saveDirExists, entries, pc, calls, files, error, csvOther>>

\* Lines 214-217: a row whose URL is empty after strip().
SkipEmptyUrl ==
    /\ pc = "loop" /\ index < Len(entries)
    /\ ~EntryTooShort(entries[index + 1])
    /\ UrlMissing(EntryUrl(entries[index + 1]))
    /\ index' = index + 1
    /\ log' = Append(log, [kind |-> "skip_empty_url", row |-> index + 1])
    /\ UNCHANGED <<csvExists, saveDirExists, entries, pc, calls, files, error, csvOther>>

\* A slip of the save: a file that exists is left as it is.
SaveImage_KeepFirst(dir, name, image) == dir @@ (name :> image)

\* img.save(os.path.join(save_to_dir, filename), ...): the directory after
\* the save; a file of that name is replaced.
SaveImage(dir, name, image) == (name :> image) @@ dir

\* Lines 219-224: compose the page and save it under the cleaned title.
ProcessEntry ==
    /\ pc = "loop" /\ index < Len(entries)
    /\ ~EntryTooShort(entries[index + 1])
    /\ ~UrlMissing(EntryUrl(entries[index + 1]))
    /\ LET title == EntryTitle(entries[index + 1])
           u == EntryUrl(entries[index + 1])
           page == create_full_page_image(title, u)
       IN  /\ page.raised = "none"
           /\ calls' = Append(calls, [row |-> index + 1, title |-> title, url |-> u])
           /\ files' = SaveImage(files, FileName(title), [title |-> title, url |-> u])
           /\ log' = log \o << [kind |-> "processing", row |-> index + 1],
                               [kind |-> "saved", row |-> index + 1] >>
    /\ index' = index + 1
    /\ UNCHANGED <<csvExists, saveDirExists, entries, pc, error, csvOther>>

\* A slip: the failure of a row is caught, logged, and the loop goes on.
ProcessEntryRaises_Caught ==
    /\ pc = "loop" /\ index < Len(entries)
    /\ ~EntryTooShort(entries[index + 1])
    /\ ~UrlMissing(EntryUrl(entries[index + 1]))
    /\ LET title == EntryTitle(entries[index + 1])
           u == EntryUrl(entries[index + 1])
           page == create_full_page_image(title, u)
       IN  /\ page.raised # "none"
           /\ calls' = Append(calls, [row |-> index + 1, title |-> title, url |-> u])
    /\ log' = log \o << [kind |-> "processing", row |-> index + 1],
                        [kind |-> "failed", row |-> index + 1] >>
    /\ index' = index + 1
    /\ UNCHANGED <<csvExists, saveDirExists, entries, pc, files, error, csvOther>>

\* Lines 219-220: the composition raises; nothing catches it in process_csv.
ProcessEntryRaises ==
    /\ pc = "loop" /\ index < Len(entries)
    /\ ~EntryTooShort(entries[index + 1])
    /\ ~UrlMissing(EntryUrl(entries[index + 1]))
    /\ LET title == EntryTitle(entries[index + 1])
           u == EntryUrl(entries[index + 1])
           page == create_full_page_image(title, u)
       IN  /\ page.raised # "none"
           /\ calls' = Append(calls, [row |-> index + 1, title |-> title, url |-> u])
           /\ error' = page.raised
    /\ log' = Append(log, [kind |-> "processing", row |-> index + 1])
    /\ index' = index + 1
    /\ pc' = "raised"
    /\ UNCHANGED <<csvExists, saveDirExists, entries, files, csvOther>>

\* Line 226: the loop is over.
FinishCsv ==
    /\ pc = "loop" /\ index = Len(entries)
    /\ log' = Append(log, [kind |-> "all_done", row |-> 0])
    /\ pc' = "done"
    /\ UNCHANGED <<csvExists, saveDirExists, entries, index, calls, files, error, csvOther>>

Next ==
    \/ OpenCsv
    \/ OpenCsvMissing
    \/ SkipInvalidEntry
    \/ SkipEmptyUrl
    \/ ProcessEntry
    \/ ProcessEntryRaises
    \/ FinishCsv

Spec == Init /\ [][Next]_vars

\* Some character of text is no whitespace: text is non-empty after trimming.
HasText(text) == \E i \in 1..Len(text) : text[i] \notin Whitespace

\* A row the batch must compose: at least 2 columns and a URL with text.
Eligible(row) == Len(row) >= 2 /\ HasText(row[2])

\* The eligible rows among the first k rows of the CSV.
EligibleRows(k) == {i \in 1..k : Eligible(entries[i])}

\* The row numbers of the composition calls made, in call order.
CallRows == [i \in 1..Len(calls) |-> calls[i].row]

RowNumbers == [i \in 1..Len(entries) |-> i]

C2_CallsHaveTitleAndUrl ==
    \A i \in 1..Len(calls) : HasText(calls[i].title) /\ HasText(calls[i].url)

\* A row with a title, and a URL that has text and can be encoded.
ValidRow(row) ==
    /\ Eligible(row)
    /\ HasText(row[1])
    /\ segno_make(strip(row[2])) = "none"

\* C3: for a CSV whose first row is the header Title,URL followed by k valid
\* rows, exactly k composition calls occur, none of them for the header.
C3_HeaderRowNotComposed ==
    ( /\ pc = "done"
      /\ Len(entries) >= 1
      /\ entries[1] = <<T_Title, T_URL>>
      /\ \A i \in 2..Len(entries) : ValidRow(entries[i]) ) =>
        /\ Len(calls) = Len(entries) - 1
        /\ \A i \in 1..Len(calls) : calls[i].row # 1

\* The calls whose composition returned a page.
ComposedCalls == {k \in 1..Len(calls) : segno_make(calls[k].url) = "none"}

\* The page of call k as it is saved.
PageOfCall(k) == [title |-> calls[k].title, url |-> calls[k].url]

\* The name of the file call k is saved under.
NameOfCall(k) == clean_filename(calls[k].title) \o <<".", "p", "n", "g">>

\* C16: in batch mode an encoding failure on a row is not caught per row:
\* when composing row i raises, process_csv propagates the error and stops,
\* no row after i is composed or saved, and the files saved for the rows
\* before i stay in place.
C16_RaiseAbortsBatch ==
    \A k \in 1..Len(calls) :
        segno_make(calls[k].url) # "none" =>
            /\ pc = "raised"
            /\ error = segno_make(calls[k].url)
            /\ k = Len(calls)
            /\ index = calls[k].row
            /\ \A j \in 1..Len(calls) : calls[j].row <= calls[k].row
            /\ DOMAIN files = {NameOfCall(j) : j \in 1..(k - 1)}
            /\ \A name \in DOMAIN files :
                  \E j \in 1..(k - 1) : files[name] = PageOfCall(j)

\* C16 witness: the second of three rows cannot be encoded: the batch has
\* stopped there with the first row's file in place and the third row
\* untouched.
C16_Witness ==
    /\ pc = "raised"
    /\ entries = << <<TitleA, UrlA>>, <<TitleB, UrlTooLong>>, <<TitleAPadded, UrlB>> >>
    /\ error = "DataOverflowError"
    /\ CallRows = <<1, 2>>
    /\ DOMAIN files = {<<"E", "v", "e", "n", "t", ".", "p", "n", "g">>}

\* C17: when the CSV file does not exist, process_csv raises
\* FileNotFoundError for the whole run: no composition call is made and no
\* image file is written.
C17_MissingCsvRaises ==
    (~csvExists /\ pc # "start") =>
        /\ pc = "raised"
        /\ error = "FileNotFoundError"
        /\ calls = <<>>
        /\ DOMAIN files = {}

\* C17 witness: the run on a CSV that does not exist has raised.
C17_Witness ==
    /\ ~csvExists
    /\ pc = "raised"
    /\ error = "FileNotFoundError"

\* C19: each processed row is saved as '<clean_filename(title)>.png' in the
\* output directory, and collisions silently overwrite: when two processed
\* rows sanitise to the same file name, exactly one file of that name exists
\* and it holds the image of the later row.
C19_SavedUnderCleanNameLastWins ==
    pc \in {"loop", "done", "raised"} =>
        /\ DOMAIN files = {NameOfCall(k) : k \in ComposedCalls}
        /\ \A k \in ComposedCalls :
              \E j \in ComposedCalls :
                  /\ NameOfCall(j) = NameOfCall(k)
                  /\ \A j2 \in ComposedCalls :
                        NameOfCall(j2) = NameOfCall(k) => j2 <= j
                  /\ files[NameOfCall(k)] = PageOfCall(j)

\* C19 witness: two rows with the titles 'Event' and ' Event!' and different
\* URLs were processed: Event.png alone exists and holds the second row's
\* page.
C19_Witness ==
    /\ pc = "done"
    /\ entries = << <<TitleA, UrlA>>, <<TitleAPadded, UrlB>> >>
    /\ DOMAIN files = {<<"E", "v", "e", "n", "t", ".", "p", "n", "g">>}
    /\ files[<<"E", "v", "e", "n", "t", ".", "p", "n", "g">>].url =
          <<"h", "t", "t", "p", ":", "/", "/", "b", ".", "i", "o">>

-----------------------------------------------------------------------------
(* SpecQr: create_qr_code(url, qr_size) called once by a caller that does  *)
(* not handle exceptions.  The symbol version for a payload is the         *)
(* encoder's choice and is drawn from QrVersions.                          *)

\* Modules per side of a version v symbol.
Modules(v) == 17 + 4 * v

\* border=4: the quiet zone, in modules, on each side.
QuietZone == 4

QrVersions == {1, 2, 7, 40}
QrSizes == {1, 29, 200, 500, 1000, 2000}
QrUrls == {<<>>, UrlA, UrlBlank, UrlTooLong}

\* A slip: the failure is swallowed and the call is made again with a blank
\* payload.
create_qr_code_Retry(u, size, version) ==
    LET width == Modules(version) + 2 * QuietZone
        scale == IF size \div width > 1 THEN size \div width ELSE 1
    IN  IF segno_make(u) = "DataOverflowError"
        THEN [err |-> "DataOverflowError", img |-> NoImage, makeCalls |-> 1]
        ELSE [err |-> "none",
              img |-> [width |-> width * scale, height |-> width * scale],
              makeCalls |-> IF segno_make(u) = "none" THEN 1 ELSE 2]

\* Slips of the scale: the floor of 1 left out, the division turned round.
create_qr_code_NoFloor(u, size, version) ==
    LET width == Modules(version) + 2 * QuietZone
        scale == size \div width
    IN  IF segno_make(u) # "none"
        THEN [err |-> segno_make(u), img |-> NoImage, makeCalls |-> 1]
        ELSE [err |-> "none",
              img |-> [width |-> width * scale, height |-> width * scale],
              makeCalls |-> 1]
create_qr_code_Swapped(u, size, version) ==
    LET width == Modules(version) + 2 * QuietZone
        scale == IF width \div size > 1 THEN width \div size ELSE 1
    IN  IF segno_make(u) # "none"
        THEN [err |-> segno_make(u), img |-> NoImage, makeCalls |-> 1]
        ELSE [err |-> "none",
              img |-> [width |-> width * scale, height |-> width * scale],
              makeCalls |-> 1]

\* create_qr_code(url, qr_size): the exception raised or the image size, and
\* the number of segno.make calls made.
create_qr_code(u, size, version) ==
    LET qr == segno_make(u)
        width == Modules(version) + 2 * QuietZone
        scale == IF size \div width > 1 THEN size \div width ELSE 1
    IN  IF qr # "none"
        THEN [err |-> qr, img |-> NoImage, makeCalls |-> 1]
        ELSE [err |-> "none",
              img |-> [width |-> width * scale, height |-> width * scale],
              makeCalls |-> 1]

InitQr ==
    /\ q_url \in QrUrls
    /\ qr_size \in QrSizes
    /\ q_version \in (IF segno_make(q_url) = "none" THEN QrVersions ELSE {0})
    /\ q_pc = "call" /\ q_img = NoImage /\ q_error = "none" /\ q_makeCalls = 0
    /\ CsvIdle /\ CleanIdle /\ FitIdle /\ PasteIdle /\ ScaleIdle /\ PageIdle /\ FontIdle /\ GuiIdle

qrOther == <<csvVars, cleanVars, fitVars, pasteVars, scaleVars, pageVars, fontVars, guiVars>>

\* create_qr_code returns an image.
CreateQrCodeReturns ==
    /\ q_pc = "call"
    /\ LET r == create_qr_code(q_url, qr_size, q_version)
       IN  /\ r.err = "none"
           /\ q_img' = r.img
           /\ q_makeCalls' = q_makeCalls + r.makeCalls
    /\ q_pc' = "returned"
    /\ UNCHANGED <<q_url, qr_size, q_version, q_error, qrOther>>

\* segno.make raises inside create_qr_code; the caller receives the exception.
CreateQrCodeRaises ==
    /\ q_pc = "call"
    /\ LET r == create_qr_code(q_url, qr_size, q_version)
       IN  /\ r.err # "none"
           /\ q_error' = r.err
           /\ q_makeCalls' = q_makeCalls + r.makeCalls
    /\ q_pc' = "raised"
    /\ UNCHANGED <<q_url, qr_size, q_version, q_img, qrOther>>

NextQr == CreateQrCodeReturns \/ CreateQrCodeRaises

SpecQr == InitQr /\ [][NextQr]_vars

\* C10: create_qr_code called with an empty payload fails with ValueError
\* and returns no image, for every target size; the caller receives that
\* error, and the encoder is called once, not again.
C10_EmptyPayloadRaises ==
    (q_pc # "call" /\ q_url = <<>>) =>
        /\ q_pc = "raised"
        /\ q_error = "ValueError"
        /\ q_img = NoImage
        /\ q_makeCalls = 1

\* C10 witness: the call with an empty payload and target size 2000 has
\* raised.
C10_Witness ==
    /\ q_pc = "raised"
    /\ q_url = <<>>
    /\ qr_size = 2000
    /\ q_error = "ValueError"

\* The pixel width of a version v symbol with its quiet zone at scale 1.
NativeWidth(v) == 4 * v + 17 + 2 * 4

\* C12: create_qr_code scales by the integer max(1, floor(qr_size /
\* nativeWidth)): the scale is never below 1, so the image is never smaller
\* than the native resolution, whatever the target size, and when qr_size is
\* at least the native width the image is no wider than qr_size.
C12_ScaleFloorOne ==
    q_pc = "returned" =>
        LET native == NativeWidth(q_version)
            floored == qr_size \div native
            scale == IF floored >= 1 THEN floored ELSE 1
        IN  /\ scale >= 1
            /\ q_img.width = native * scale /\ q_img.height = native * scale
            /\ q_img.width >= native /\ q_img.height >= native
            /\ qr_size >= native =>
                  (q_img.width <= qr_size /\ q_img.height <= qr_size)

\* C12 witness: a target of 1 pixel, below the 29 pixels of a version 1
\* symbol, returned the symbol at its native size.
C12_Witness ==
    /\ q_pc = "returned"
    /\ qr_size = 1
    /\ q_version = 1
    /\ q_img = [width |-> 29, height |-> 29]

-----------------------------------------------------------------------------
(* SpecScale: create_qr_code called twice with the same payload, so with   *)
(* the same symbol, and two target sizes.                                  *)

InitScale ==
    /\ sc_url \in QrUrls
    /\ sc_version \in (IF segno_make(sc_url) = "none" THEN QrVersions ELSE {0})
    /\ sc_sizes \in QrSizes \X QrSizes
    /\ sc_imgs = <<>> /\ sc_pc = "first"
    /\ CsvIdle /\ CleanIdle /\ QrIdle /\ FitIdle /\ PasteIdle /\ PageIdle /\ FontIdle /\ GuiIdle

scaleOther == <<csvVars, cleanVars, qrVars, fitVars, pasteVars, pageVars, fontVars, guiVars>>

\* create_qr_code(url, qr_size=n1) returns.
ScaleFirstCall ==
    /\ sc_pc = "first"
    /\ LET r == create_qr_code(sc_url, sc_sizes[1], sc_version)
       IN  /\ r.err = "none"
           /\ sc_imgs' = Append(sc_imgs, r.img)
    /\ sc_pc' = "second"
    /\ UNCHANGED <<sc_url, sc_version, sc_sizes, scaleOther>>

\* create_qr_code(url, qr_size=n2) returns.
ScaleSecondCall ==
    /\ sc_pc = "second"
    /\ LET r == create_qr_code(sc_url, sc_sizes[2], sc_version)
       IN  /\ r.err = "none"
           /\ sc_imgs' = Append(sc_imgs, r.img)
    /\ sc_pc' = "done"
    /\ UNCHANGED <<sc_url, sc_version, sc_sizes, scaleOther>>

\* The payload cannot be encoded: the first call raises.
ScaleCallRaises ==
    /\ sc_pc = "first"
    /\ create_qr_code(sc_url, sc_sizes[1], sc_version).err # "none"
    /\ sc_pc' = "raised"
    /\ UNCHANGED <<sc_url, sc_version, sc_sizes, sc_imgs, scaleOther>>

NextScale == ScaleFirstCall \/ ScaleSecondCall \/ ScaleCallRaises

SpecScale == InitScale /\ [][NextScale]_vars

\* C11: for a fixed encodable URL the width and the height of the image
\* create_qr_code returns never decrease as the target size grows: n1 <= n2
\* implies size(n1) <= size(n2) in both dimensions.
C11_SizeMonotonic ==
    (sc_pc = "done" /\ sc_sizes[1] <= sc_sizes[2]) =>
        /\ sc_imgs[1].width <= sc_imgs[2].width
        /\ sc_imgs[1].height <= sc_imgs[2].height

\* C11 witness: the targets 500 and 2000 of the repository's test gave a
\* smaller and a larger image of the same symbol.
C11_Witness ==
    /\ sc_pc = "done"
    /\ sc_sizes = <<500, 2000>>
    /\ sc_imgs[1].width < sc_imgs[2].width
    /\ sc_imgs[1].height < sc_imgs[2].height

-----------------------------------------------------------------------------
(* textwrap.TextWrapper(width=w).wrap(text), with the defaults the program *)
(* leaves in place: expand_tabs, replace_whitespace, drop_whitespace,      *)
(* break_long_words and break_on_hyphens are on, no indent, no max_lines.  *)
(* The texts of the model hold no run of two hyphens, so the em-dash       *)
(* alternatives of wordsep_re never match and are left out.                *)

MinOf(S) == CHOOSE x \in S : \A y \in S : x <= y
MaxOf(S) == CHOOSE x \in S : \A y \in S : y <= x

\* text.expandtabs(8), from position i on, col characters into the line:
\* the text up to the next tab or line break is copied, a tab becomes the
\* spaces up to the next multiple of 8, a line break restarts the column.
RECURSIVE expandtabs(_, _, _)
expandtabs(text, i, col) ==
    LET stops == {j \in i..Len(text) : text[j] \in {"\t", "\n", "\r"}}
    IN  IF stops = {} THEN SubSeq(text, i, Len(text))
        ELSE LET j == MinOf(stops)
             IN  SubSeq(text, i, j - 1)
                 \o (IF text[j] = "\t"
                     THEN Rep(" ", 8 - ((col + j - i) % 8))
                     ELSE <<text[j]>>)
                 \o expandtabs(text, j + 1, 0)

\* _munge_whitespace: tabs expanded, then every whitespace made a space
munge_whitespace(text) ==
    LET t == expandtabs(text, 1, 0)
    IN  [i \in 1..Len(t) |-> IF t[i] \in Whitespace THEN " " ELSE t[i]]

\* [^\d\W]: a letter or an underscore
IsLetter(c) == c \in Lower \cup Upper \cup {"_"}

\* wordsep_re, hyphenated word: a chunk ends after the hyphen at position i
\* when two letters, or letter-hyphen-letter, come before it and a letter,
\* an optional hyphen and a letter come after it.
HyphenBreak(t, i) ==
    /\ t[i] = "-"
    /\ \/ i >= 3 /\ IsLetter(t[i - 2]) /\ IsLetter(t[i - 1])
       \/ i >= 4 /\ IsLetter(t[i - 3]) /\ t[i - 2] = "-" /\ IsLetter(t[i - 1])
    /\ \/ i + 2 <= Len(t) /\ IsLetter(t[i + 1]) /\ IsLetter(t[i + 2])
       \/ i + 3 <= Len(t) /\ IsLetter(t[i + 1]) /\ t[i + 2] = "-" /\ IsLetter(t[i + 3])

\* A chunk ends at position i: the text ends, whitespace starts or stops, or
\* a hyphenated word may break.
ChunkEnd(t, i) ==
    \/ i = Len(t)
    \/ (t[i] \in Whitespace) # (t[i + 1] \in Whitespace)
    \/ HyphenBreak(t, i)

\* The first chunk end at or after position i.
NextChunkEnd(t, i) == MinOf({j \in i..Len(t) : ChunkEnd(t, j)})

\* _split: the chunks of t from position start on
RECURSIVE split(_, _)
split(t, start) ==
    IF start > Len(t) THEN <<>>
    ELSE LET e == NextChunkEnd(t, start)
         IN  <<SubSeq(t, start, e)>> \o split(t, e + 1)

\* chunk.strip() == ''
IsBlank(chunk) == \A i \in 1..Len(chunk) : chunk[i] \in Whitespace

RECURSIVE SumLen(_, _)
SumLen(chunks, k) == IF k = 0 THEN 0 ELSE Len(chunks[k]) + SumLen(chunks, k - 1)

\* ''.join(chunks)
RECURSIVE join(_)
join(chunks) == IF chunks = <<>> THEN <<>> ELSE Head(chunks) \o join(Tail(chunks))

\* The inner loop of _wrap_chunks: how many leading chunks go on the line.
RECURSIVE TakeCount(_, _, _, _)
TakeCount(chunks, k, cur_len, width) ==
    IF k < Len(chunks) /\ cur_len + Len(chunks[k + 1]) <= width
    THEN TakeCount(chunks, k + 1, cur_len + Len(chunks[k + 1]), width)
    ELSE k

\* chunk.rfind('-', 0, space_left) + 1: the last hyphen among the first
\* space_left characters, 0 when there is none
rfind_hyphen(chunk, space_left) ==
    LET found == {j \in 1..space_left : j <= Len(chunk) /\ chunk[j] = "-"}
    IN  IF found = {} THEN 0 ELSE MaxOf(found)

\* _handle_long_word: where the chunk too long for any line is cut
LongWordCut(chunk, space_left) ==
    LET h == rfind_hyphen(chunk, space_left)
    IN  IF /\ Len(chunk) > space_left
           /\ h > 1
           /\ \E j \in 1..(h - 1) : chunk[j] # "-"
        THEN h
        ELSE space_left

\* _wrap_chunks: the lines made of the chunks left, after the lines made
RECURSIVE wrap_chunks(_, _, _)
wrap_chunks(chunks, lines, width) ==
    IF chunks = <<>> THEN lines
    ELSE
      LET c1 == IF IsBlank(chunks[1]) /\ lines # <<>> THEN Tail(chunks) ELSE chunks
          k == TakeCount(c1, 0, 0, width)
          cur == SubSeq(c1, 1, k)
          rest == SubSeq(c1, k + 1, Len(c1))
          long == rest # <<>> /\ Len(rest[1]) > width
          cut == IF long THEN LongWordCut(rest[1], width - SumLen(cur, k)) ELSE 0
          cur2 == IF long THEN Append(cur, SubSeq(rest[1], 1, cut)) ELSE cur
          rest2 == IF long
                   THEN <<SubSeq(rest[1], cut + 1, Len(rest[1]))>> \o Tail(rest)
                   ELSE rest
          cur3 == IF cur2 # <<>> /\ IsBlank(cur2[Len(cur2)])
                  THEN SubSeq(cur2, 1, Len(cur2) - 1)
                  ELSE cur2
      IN  wrap_chunks(rest2, IF cur3 # <<>> THEN Append(lines, join(cur3)) ELSE lines,
                      width)

\* A slip: a text that wraps to no line at all gives one empty line.
wrap_OneLineAtLeast(text, width) ==
    LET lines == wrap_chunks(split(munge_whitespace(text), 1), <<>>, width)
    IN  IF lines = <<>> THEN << <<>> >> ELSE lines

\* TextWrapper(width=width).wrap(text)
wrap(text, width) == wrap_chunks(split(munge_whitespace(text), 1), <<>>, width)

-----------------------------------------------------------------------------
(* Fonts.  A font path is described by what is found at it: at is "None"   *)
(* (no path given), "missing" (no such file), "unloadable" (truetype       *)
(* raises IOError) or "truetype"; em is the advance of one glyph of a      *)
(* loadable font, in hundredths of the font size.  Glyphs of one font are  *)
(* taken to be equally wide.                                               *)

\* ImageFont.load_default(): the built-in font, the same at every size.
DefaultFont == [face |-> "default", advance |-> 6]

\* A slip: the built-in font is asked for at the requested size, as
\* load_default(size) would give it.
get_font_SizedDefault(path, size) ==
    IF path.at \in {"None", "missing", "unloadable"}
    THEN [face |-> "default", advance |-> (size * 6) \div 10]
    ELSE [face |-> "truetype", advance |-> (size * path.em) \div 100]

\* get_font(font_path, font_size)
get_font(path, size) ==
    IF path.at = "None" THEN DefaultFont
    ELSE IF path.at = "missing" THEN DefaultFont
    ELSE IF path.at = "unloadable" THEN DefaultFont
    ELSE [face |-> "truetype", advance |-> (size * path.em) \div 100]

\* bbox = font.getbbox(line); line_width = bbox[2] - bbox[0]
line_width(font, line) == Len(line) * font.advance

\* page_size[0] of the default page_size=(2550, 3300)
PageWidth == 2550

side_margin == 300

\* max_text_width = page_size[0] - 2 * side_margin
max_text_width == PageWidth - 2 * side_margin

-----------------------------------------------------------------------------
(* SpecFit: create_full_page_image from the QR encoding (line 122) to the  *)
(* end of the URL shrink-to-fit loop (line 163).                           *)

url_font_size == 80

\* The width of TextWrapper(width=60) for the URL.
UrlWrapWidth == 60

FitUrls ==
    { <<>>,
      UrlA,
      Rep("a", 60),
      Rep("a", 61),
      Rep("a", 40) \o <<"-">> \o Rep("b", 40),
      Rep("a", 59) \o <<" ">> \o Rep("b", 70),
      UrlTooLong }

FontPaths ==
    { [at |-> "None", em |-> 0],
      [at |-> "missing", em |-> 0],
      [at |-> "unloadable", em |-> 0],
      [at |-> "truetype", em |-> 25],
      [at |-> "truetype", em |-> 50],
      [at |-> "truetype", em |-> 60],
      [at |-> "truetype", em |-> 100] }

\* Slips of the loop: a step of 3, a step of 1.
NextFontSize_Step3(size) == size - 3
NextFontSize_Step1(size) == size - 1

\* font_size -= 2
NextFontSize(size) == size - 2

\* The for loop of one pass: fits stays True unless some line is wider than
\* max_text_width while font_size > 40.
AllFit(font, lines, size) ==
    ~ \E i \in 1..Len(lines) :
          line_width(font, lines[i]) > max_text_width /\ size > 40

\* A slip: the loop breaks at the floor only.
LoopExit_FloorOnly(fit, size) == size <= 40

\* if fits or font_size <= 40: break
LoopExit(fit, size) == fit \/ size <= 40

InitFit ==
    /\ url \in FitUrls
    /\ font_path \in FontPaths
    /\ f_pc = "encode" /\ font_size = 0
    /\ url_font = [face |-> "none", advance |-> 0]
    /\ wrapped_url = <<>> /\ fits = FALSE /\ passes = 0
    /\ CsvIdle /\ CleanIdle /\ QrIdle /\ PasteIdle /\ ScaleIdle /\ PageIdle /\ FontIdle /\ GuiIdle

fitOther == <<csvVars, cleanVars, qrVars, pasteVars, scaleVars, pageVars, fontVars, guiVars>>

\* Line 122: the QR code is made.
FitEncode ==
    /\ f_pc = "encode"
    /\ segno_make(url) = "none"
    /\ f_pc' = "wrap"
    /\ UNCHANGED <<url, font_path, font_size, url_font, wrapped_url, fits, passes,
                   fitOther>>

\* Line 122: create_qr_code raises and create_full_page_image ends.
FitEncodeRaises ==
    /\ f_pc = "encode"
    /\ segno_make(url) # "none"
    /\ f_pc' = "raised"
    /\ UNCHANGED <<url, font_path, font_size, url_font, wrapped_url, fits, passes,
                   fitOther>>

\* Lines 142-147: the URL is wrapped, the loop starts at url_font_size.
WrapUrl ==
    /\ f_pc = "wrap"
    /\ wrapped_url' = wrap(url, UrlWrapWidth)
    /\ font_size' = url_font_size
    /\ url_font' = get_font(font_path, url_font_size)
    /\ f_pc' = "loop"
    /\ UNCHANGED <<url, font_path, fits, passes, fitOther>>

\* Lines 148-160: a measuring pass that does not break: the size is reduced
\* and the URL wrapped again.
ShrinkPass ==
    /\ f_pc = "loop"
    /\ LET font == get_font(font_path, font_size)
           fit == AllFit(font, wrapped_url, font_size)
       IN  /\ ~LoopExit(fit, font_size)
           /\ url_font' = font
           /\ fits' = fit
    /\ font_size' = NextFontSize(font_size)
    /\ wrapped_url' = wrap(url, UrlWrapWidth)
    /\ passes' = passes + 1
    /\ UNCHANGED <<url, font_path, f_pc, fitOther>>

\* Lines 148-158 and 163: the measuring pass that breaks; the font is loaded
\* once more at the final size.
LastPass ==
    /\ f_pc = "loop"
    /\ LET font == get_font(font_path, font_size)
           fit == AllFit(font, wrapped_url, font_size)
       IN  /\ LoopExit(fit, font_size)
           /\ url_font' = font
           /\ fits' = fit
    /\ passes' = passes + 1
    /\ f_pc' = "done"
    /\ UNCHANGED <<url, font_path, font_size, wrapped_url, fitOther>>

NextFit == FitEncode \/ FitEncodeRaises \/ WrapUrl \/ ShrinkPass \/ LastPass

SpecFit == InitFit /\ [][NextFit]_vars

\* C4: when the shrink-to-fit loop finishes, either every wrapped URL line is
\* no wider than the content width (1950 px) at the final font size, or the
\* final font size is the floor of 40.
C4_FitOrFloor ==
    f_pc = "done" =>
        \/ \A i \in 1..Len(wrapped_url) :
              line_width(get_font(font_path, font_size), wrapped_url[i]) <= 1950
        \/ font_size = 40

\* C4 witness: the loop has finished above the floor after shrinking, with
\* every line fitting.
C4_Witness ==
    /\ f_pc = "done"
    /\ font_size = 64
    /\ Len(wrapped_url) = 2
    /\ \A i \in 1..Len(wrapped_url) : line_width(url_font, wrapped_url[i]) <= 1950

\* C5: the shrink loop terminates: the font size starts at 80, only ever
\* decreases in steps of 2, never goes below 40, and the loop exits after at
\* most 21 measuring passes.
\* Termination is stated by its variant: every pass either leaves the loop
\* or lowers the size by 2, the pass at size 40 leaves it, and the passes
\* made count the sizes tried.
C5_LoopTerminates ==
    /\ [][f_pc = "wrap" => (font_size' = 80 /\ passes' = 0)]_vars
    /\ [][f_pc = "loop" =>
            /\ passes' = passes + 1
            /\ \/ f_pc' = "done" /\ font_size' = font_size
               \/ f_pc' = "loop" /\ font_size' = font_size - 2]_vars
    /\ [][(f_pc = "loop" /\ font_size = 40) => f_pc' = "done"]_vars
    /\ [](f_pc \in {"loop", "done"} => (font_size >= 40 /\ passes <= 21))

\* C5 witness: the loop has run down to the floor in 21 passes.
C5_Witness ==
    /\ f_pc = "done"
    /\ font_size = 40
    /\ passes = 21

\* Every wrapped URL line is no wider than the content width at size s.
LinesFitAt(s) ==
    \A i \in 1..Len(wrapped_url) :
        Len(wrapped_url[i]) * get_font(font_path, s).advance <= 2550 - 2 * 300

\* The sizes above the floor the loop can try.
SizesAboveFloor == {s \in 42..80 : s % 2 = 0}

\* C22: first match wins in the URL shrink loop: the final font size is the
\* largest s of 80, 78, ..., 42 at which every wrapped URL line fits the
\* content width, and 40 when there is none; the loop never goes on past a
\* size at which all lines fit.
C22_FirstFitWins ==
    /\ [](f_pc = "done" =>
            IF \E s \in SizesAboveFloor : LinesFitAt(s)
            THEN /\ font_size \in SizesAboveFloor
                 /\ LinesFitAt(font_size)
                 /\ \A s \in SizesAboveFloor : LinesFitAt(s) => s <= font_size
            ELSE font_size = 40)
    /\ [][(f_pc = "loop" /\ LinesFitAt(font_size)) =>
            (f_pc' = "done" /\ font_size' = font_size)]_vars

\* C22 witness: with glyphs 0.6 of the font size wide, two lines of 60 and 1
\* characters first fit at size 54, where the loop stopped on its 14th pass.
C22_Witness ==
    /\ f_pc = "done"
    /\ font_size = 54
    /\ passes = 14
    /\ LinesFitAt(54) /\ ~LinesFitAt(56)

-----------------------------------------------------------------------------
(* SpecFont: get_font(font_path, font_size) called once, with each kind of *)
(* font path and each size the program asks for: 150 for the title, 80     *)
(* down to 40 in steps of 2 for the URL.                                   *)

\* title_font_size = 150 (line 91)
title_font_size == 150

FontSizes == {title_font_size} \cup {n \in 40..url_font_size : n % 2 = 0}

\* ImageFont.truetype(font_path, font_size): IOError for a file that is no
\* font, the font otherwise.
truetype(path, size) ==
    IF path.at = "unloadable"
    THEN [raised |-> "IOError", font |-> NoFont]
    ELSE [raised |-> "none", font |-> get_font(path, size)]

\* A slip: truetype is called outside any try.
get_font_call_NoTry(path, size) ==
    IF path.at = "None"
    THEN [raised |-> "none", font |-> DefaultFont, printed |-> <<>>]
    ELSE IF path.at = "missing"
    THEN [raised |-> "none", font |-> DefaultFont, printed |-> <<"Font not found">>]
    ELSE [raised |-> truetype(path, size).raised,
          font |-> truetype(path, size).font, printed |-> <<>>]

\* get_font(font_path, font_size) as a call: the exception that leaves it,
\* the font returned and the lines printed.
get_font_call(path, size) ==
    IF path.at = "None"
    THEN [raised |-> "none", font |-> DefaultFont, printed |-> <<>>]
    ELSE IF path.at = "missing"
    THEN [raised |-> "none", font |-> DefaultFont, printed |-> <<"Font not found">>]
    ELSE IF truetype(path, size).raised = "IOError"
    THEN [raised |-> "none", font |-> DefaultFont,
          printed |-> <<"Failed to load font">>]
    ELSE [raised |-> truetype(path, size).raised,
          font |-> truetype(path, size).font, printed |-> <<>>]

InitFont ==
    /\ gf_path \in FontPaths
    /\ gf_size \in FontSizes
    /\ gf_pc = "call" /\ gf_font = NoFont /\ gf_log = <<>> /\ gf_error = "none"
    /\ CsvIdle /\ CleanIdle /\ QrIdle /\ FitIdle /\ PasteIdle /\ ScaleIdle /\ PageIdle /\ GuiIdle

fontOther == <<csvVars, cleanVars, qrVars, fitVars, pasteVars, scaleVars, pageVars, guiVars>>

\* Lines 30-47: the call, to its return or to the exception that leaves it.
GetFont ==
    /\ gf_pc = "call"
    /\ LET r == get_font_call(gf_path, gf_size)
       IN  /\ gf_error' = r.raised
           /\ gf_font' = r.font
           /\ gf_log' = gf_log \o r.printed
           /\ gf_pc' = IF r.raised = "none" THEN "returned" ELSE "raised"
    /\ UNCHANGED <<gf_path, gf_size, fontOther>>

NextFont == GetFont

SpecFont == InitFont /\ [][NextFont]_vars

FallsBack(path) == path.at \in {"None", "missing", "unloadable"}

\* Line is wider than the content width when measured with font.
TooWide(font, line) == Len(line) * font.advance > 1950

-----------------------------------------------------------------------------
(* SpecPaste: create_full_page_image, lines 122-137, pixel by pixel.  An   *)
(* image is a function from (x, y) to an RGBA pixel.  The symbol is any    *)
(* square matrix of PasteModules modules a side, and the target size is    *)
(* PasteTargetSize pixels instead of 2000, so that the images stay small;  *)
(* the pastes work on each pixel alone, whatever the image size.           *)

PasteModules == 2
PasteTargetSize == 10

border_size == 20
border_color == <<0, 0, 0, 255>>
Black == <<0, 0, 0, 255>>

\* Image.new('RGBA', page_size, (255, 255, 255, 0))
PageBackground == <<255, 255, 255, 0>>

\* Image.new('RGBA', size, color)
NewImage(w, h, color) == [p \in (0..(w - 1)) \X (0..(h - 1)) |-> color]

ImageWidth(image) == Cardinality({p[1] : p \in DOMAIN image})
ImageHeight(image) == Cardinality({p[2] : p \in DOMAIN image})

\* qr.save(kind='png', scale=scale, dark='black', light=None, border=4) read
\* back with convert('RGBA'): a dark module is opaque black, a light module
\* and the quiet zone are fully transparent.
QrPixels(matrix, n, scale, light) ==
    LET w == (n + 2 * QuietZone) * scale
    IN  [p \in (0..(w - 1)) \X (0..(w - 1)) |->
            LET col == p[1] \div scale - QuietZone + 1
                row == p[2] \div scale - QuietZone + 1
            IN  IF col \in 1..n /\ row \in 1..n /\ matrix[<<row, col>>]
                THEN Black
                ELSE <<light, light, light, 0>>]

\* One channel of a masked paste: the source where the mask is 255, the
\* destination where it is 0, a mix in between.
Blend(d, c, a) == (c * a + d * (255 - a)) \div 255

\* dst.paste(src, (x0, y0), mask): the mask is the alpha band of an RGBA
\* image of the size of src.
Paste(dst, src, x0, y0, mask) ==
    [p \in DOMAIN dst |->
        LET q == <<p[1] - x0, p[2] - y0>>
        IN  IF q \in DOMAIN src
            THEN [k \in 1..4 |-> Blend(dst[p][k], src[q][k], mask[q][4])]
            ELSE dst[p]]

InitPaste ==
    /\ p_matrix \in [(1..PasteModules) \X (1..PasteModules) -> BOOLEAN]
    /\ p_light \in {0, 255}
    /\ p_pc = "encode"
    /\ img_qr = <<>> /\ bordered_qr = <<>> /\ img = <<>>
    /\ CsvIdle /\ CleanIdle /\ QrIdle /\ FitIdle /\ ScaleIdle /\ PageIdle /\ FontIdle /\ GuiIdle

pasteOther == <<csvVars, cleanVars, qrVars, fitVars, scaleVars, pageVars, fontVars, guiVars>>

\* Line 122 (create_qr_code, lines 66-74): the QR image.
PasteEncode ==
    /\ p_pc = "encode"
    /\ LET width == PasteModules + 2 * QuietZone
           scale == IF PasteTargetSize \div width > 1
                    THEN PasteTargetSize \div width ELSE 1
       IN  img_qr' = QrPixels(p_matrix, PasteModules, scale, p_light)
    /\ p_pc' = "border"
    /\ UNCHANGED <<p_matrix, p_light, bordered_qr, img, pasteOther>>

\* Lines 133-135: the black square, and the QR pasted on it with itself as
\* mask.
PasteOnBorder ==
    /\ p_pc = "border"
    /\ bordered_qr' =
          Paste(NewImage(ImageWidth(img_qr) + 2 * border_size,
                         ImageHeight(img_qr) + 2 * border_size, border_color),
                img_qr, border_size, border_size, img_qr)
    /\ p_pc' = "page"
    /\ UNCHANGED <<p_matrix, p_light, img_qr, img, pasteOther>>

\* Line 137: the bordered square pasted on the page with itself as mask.
\* img holds the page's pixels from (qr_x - border_size, qr_y - border_size).
PasteOnPage ==
    /\ p_pc = "page"
    /\ img' = Paste(NewImage(ImageWidth(bordered_qr), ImageHeight(bordered_qr),
                             PageBackground),
                    bordered_qr, 0, 0, bordered_qr)
    /\ p_pc' = "done"
    /\ UNCHANGED <<p_matrix, p_light, img_qr, bordered_qr, pasteOther>>

NextPaste == PasteEncode \/ PasteOnBorder \/ PasteOnPage

SpecPaste == InitPaste /\ [][NextPaste]_vars

\* C6: after both pastes the QR's pattern is preserved on the page: inside
\* the border every pixel of a light module is still fully transparent and
\* every pixel of a dark module is opaque black, so a light and a dark pixel
\* differ on the page.
C6_PatternPreserved ==
    p_pc = "done" =>
        \A p \in DOMAIN img_qr :
            LET onPage == img[<<p[1] + border_size, p[2] + border_size>>]
            IN  /\ img_qr[p][4] = 0 => onPage[4] = 0
                /\ img_qr[p] = Black => onPage = Black
                /\ \A q \in DOMAIN img_qr :
                      (img_qr[p][4] = 0 /\ img_qr[q] = Black) =>
                          onPage # img[<<q[1] + border_size, q[2] + border_size>>]

-----------------------------------------------------------------------------
(* SpecPage: a caller composes a page: the title is trimmed by the caller  *)
(* (process_csv line 214, the GUI's generate_single_qr), then              *)
(* create_full_page_image makes the canvas, wraps the title and draws it   *)
(* line by line (lines 83-119), places the QR image below it (lines        *)
(* 122-140) and draws the URL below the QR (lines 142-184).                *)

\* page_size[1] of the default page_size=(2550, 3300)
PageHeight == 3300

top_margin == 300

\* current_y += line_height + 20
TitleLineGap == 20

\* Slips of the title's wrap width: the URL's width, the line gap.
TitleWrapWidth_AsUrl == UrlWrapWidth
TitleWrapWidth_AsGap == TitleLineGap

\* The width of TextWrapper(width=30) for the title.
TitleWrapWidth == 30

\* bbox = font.getbbox(line); line_height = bbox[3] - bbox[1].  The glyph
\* box of a font is taken to be one and a half times as high as wide.
line_height(font, line) == IF line = <<>> THEN 0 ELSE (3 * font.advance) \div 2

TitleLong ==
    <<"T", "h", "i", "s", " ", "i", "s", " ", "a", " ", "v", "e", "r", "y",
      " ", "l", "o", "n", "g", " ", "t", "i", "t", "l", "e", " ", "t", "h",
      "a", "t", " ", "s", "h", "o", "u", "l", "d", " ", "w", "r", "a", "p",
      " ", "t", "o", " ", "m", "u", "l", "t", "i", "p", "l", "e", " ", "l",
      "i", "n", "e", "s", " ", "w", "h", "e", "n", " ", "d", "i", "s", "p",
      "l", "a", "y", "e", "d", " ", "i", "n", " ", "t", "h", "e", " ", "Q",
      "R", " ", "c", "o", "d", "e", " ", "g", "e", "n", "e", "r", "a", "t",
      "o", "r">>
TitleHyphens ==
    <<"A", "n", "n", "u", "a", "l", " ", "i", "n", "t", "e", "r", "n", "a",
      "t", "i", "o", "n", "a", "l", " ", "s", "t", "a", "t", "e", "-", "o",
      "f", "-", "t", "h", "e", "-", "a", "r", "t", " ", "s", "h", "o", "w">>
TitleTabbed ==
    <<"S", "p", "r", "i", "n", "g", "\t", "f", "a", "i", "r", " ", "o",
      "f", " ", "t", "h", "e", " ", "v", "i", "l", "l", "a", "g", "e", ",",
      " ", "2", "0", "2", "4", " ", "e", "d", "i", "t", "i", "o", "n">>

\* The titles a caller holds: empty, blank, short, padded with spaces, of
\* 30 and of 31 characters in one word, two words 29 spaces apart, a short
\* title followed by 30 spaces, the long title of the repository's test, a
\* title with hyphenated words, a title with a tab.
RawTitles ==
    { <<>>,
      UrlBlank,
      TitleA,
      TitleAPadded,
      Rep("a", 30),
      Rep("a", 31),
      <<"a">> \o Rep(" ", 29) \o <<"b">>,
      TitleA \o Rep(" ", 30),
      TitleLong,
      TitleHyphens,
      TitleTabbed }

\* The URLs composed, each with the symbol version that holds it at error
\* level H: 11 bytes in version 2, 61 bytes in version 7, and a URL beyond
\* the largest symbol.
PagePayloads == {<<UrlA, 2>>, <<Rep("a", 61), 7>>, <<UrlTooLong, 0>>}

InitPage ==
    /\ pg_raw \in RawTitles
    /\ pg_font_path \in FontPaths
    /\ pg_pc = "call" /\ pg_title = <<>> /\ pg_img = NoPage
    /\ wrapped_title = <<>> /\ current_y = 0 /\ drawn = <<>>
    /\ \E payload \in PagePayloads :
           pg_url = payload[1] /\ pg_version = payload[2]
    /\ qr_y = 0 /\ qr_box = NoBox /\ url_drawn = <<>>
    /\ CsvIdle /\ CleanIdle /\ QrIdle /\ FitIdle /\ PasteIdle /\ ScaleIdle /\ FontIdle /\ GuiIdle

pageOther == <<csvVars, cleanVars, qrVars, fitVars, pasteVars, scaleVars, fontVars, guiVars>>

\* The caller trims the title and calls create_full_page_image with it.
ComposeCall ==
    /\ pg_pc = "call"
    /\ pg_title' = strip(pg_raw)
    /\ pg_pc' = "canvas"
    /\ UNCHANGED <<pg_raw, pg_font_path, pg_img, wrapped_title, current_y, drawn,
                   placeVars, pageOther>>

\* Lines 83-84: the canvas, of the default page_size.
NewCanvas ==
    /\ pg_pc = "canvas"
    /\ pg_img' = [mode |-> "RGBA", width |-> PageWidth, height |-> PageHeight]
    /\ pg_pc' = "wrap"
    /\ UNCHANGED <<pg_raw, pg_font_path, pg_title, wrapped_title, current_y,
                   drawn, placeVars, pageOther>>

\* Lines 86-112: the title is wrapped; the cursor is set to the top margin.
WrapTitle ==
    /\ pg_pc = "wrap"
    /\ wrapped_title' = wrap(pg_title, TitleWrapWidth)
    /\ current_y' = top_margin
    /\ pg_pc' = "draw"
    /\ UNCHANGED <<pg_raw, pg_font_path, pg_title, pg_img, drawn, placeVars, pageOther>>

\* Lines 113-119: one title line is drawn, centred, and the cursor moves
\* down.  x2 is twice x_text.
DrawTitleLine ==
    /\ pg_pc = "draw"
    /\ Len(drawn) < Len(wrapped_title)
    /\ LET line == wrapped_title[Len(drawn) + 1]
           title_font == get_font(pg_font_path, title_font_size)
       IN  /\ drawn' = Append(drawn,
                  [text |-> line, y |-> current_y,
                   x2 |-> pg_img.width - line_width(title_font, line)])
           /\ current_y' = current_y + line_height(title_font, line) + TitleLineGap
    /\ UNCHANGED <<pg_raw, pg_font_path, pg_pc, pg_title, pg_img, wrapped_title,
                   placeVars, pageOther>>

\* Line 119 to 121: the title block is drawn.
TitleDrawn ==
    /\ pg_pc = "draw"
    /\ Len(drawn) = Len(wrapped_title)
    /\ pg_pc' = "qr"
    /\ UNCHANGED <<pg_raw, pg_font_path, pg_title, pg_img, wrapped_title,
                   current_y, drawn, placeVars, pageOther>>

\* create_qr_code(url, qr_size=2000)
QrTargetSize == 2000

\* qr_y = current_y + 100
TitleQrPadding == 100

\* current_y = qr_y + bordered_qr.height + 100
QrUrlPadding == 100

\* current_y += line_height + 10
UrlLineGap == 10

\* Lines 122-140: the QR image is made, bordered and pasted; the cursor
\* moves below it.
PlaceQr ==
    /\ pg_pc = "qr"
    /\ LET r == create_qr_code(pg_url, QrTargetSize, pg_version)
           x == (pg_img.width - r.img.width) \div 2
           y == current_y + TitleQrPadding
           bordered_qr_size == [width |-> r.img.width + 2 * border_size,
                                height |-> r.img.height + 2 * border_size]
       IN  /\ r.err = "none"
           /\ qr_y' = y
           /\ qr_box' = [x |-> x - border_size, y |-> y - border_size,
                         width |-> bordered_qr_size.width,
                         height |-> bordered_qr_size.height]
           /\ current_y' = y + bordered_qr_size.height + QrUrlPadding
    /\ pg_pc' = "url"
    /\ UNCHANGED <<pg_raw, pg_font_path, pg_title, pg_img, wrapped_title, drawn,
                   pg_url, pg_version, url_drawn, pageOther>>

\* Line 122: create_qr_code raises and create_full_page_image ends.
PlaceQrRaises ==
    /\ pg_pc = "qr"
    /\ create_qr_code(pg_url, QrTargetSize, pg_version).err # "none"
    /\ pg_pc' = "raised"
    /\ UNCHANGED <<pg_raw, pg_font_path, pg_title, pg_img, wrapped_title,
                   current_y, drawn, placeVars, pageOther>>

\* Lines 147-160: the font size the shrink-to-fit loop ends with.
RECURSIVE FinalFontSize(_, _, _)
FinalFontSize(path, lines, size) ==
    IF LoopExit(AllFit(get_font(path, size), lines, size), size)
    THEN size
    ELSE FinalFontSize(path, lines, NextFontSize(size))

\* The y of URL line i: the cursor after the lines before it.
RECURSIVE UrlLineY(_, _, _, _)
UrlLineY(font, lines, i, y0) ==
    IF i = 1 THEN y0
    ELSE UrlLineY(font, lines, i - 1, y0)
             + line_height(font, lines[i - 1]) + UrlLineGap

\* Lines 142-184: the URL is wrapped, its font fitted, and its lines drawn
\* from the cursor down.
DrawUrl ==
    /\ pg_pc = "url"
    /\ LET lines == wrap(pg_url, UrlWrapWidth)
           font == get_font(pg_font_path,
                            FinalFontSize(pg_font_path, lines, url_font_size))
       IN  /\ url_drawn' =
                 [i \in 1..Len(lines) |->
                     [text |-> lines[i],
                      y |-> UrlLineY(font, lines, i, current_y),
                      x2 |-> pg_img.width - line_width(font, lines[i])]]
           /\ current_y' = UrlLineY(font, lines, Len(lines) + 1, current_y)
    /\ pg_pc' = "done"
    /\ UNCHANGED <<pg_raw, pg_font_path, pg_title, pg_img, wrapped_title, drawn,
                   pg_url, pg_version, qr_y, qr_box, pageOther>>

NextPage ==
    \/ ComposeCall
    \/ NewCanvas
    \/ WrapTitle
    \/ DrawTitleLine
    \/ TitleDrawn
    \/ PlaceQr
    \/ PlaceQrRaises
    \/ DrawUrl

SpecPage == InitPage /\ [][NextPage]_vars

WordSpans(t) ==
    { sp \in (1..Len(t)) \X (1..Len(t)) :
        /\ sp[1] <= sp[2]
        /\ \A k \in sp[1]..sp[2] : t[k] \notin Whitespace
        /\ sp[1] = 1 \/ t[sp[1] - 1] \in Whitespace
        /\ sp[2] = Len(t) \/ t[sp[2] + 1] \in Whitespace }
WordsOf(t) == { SubSeq(t, sp[1], sp[2]) : sp \in WordSpans(t) }

\* Word w stands whole on one of the wrapped lines.
WholeOnALine(w, lines) == \E k \in 1..Len(lines) : w \in WordsOf(lines[k])

HasHyphen(w) == \E k \in 1..Len(w) : w[k] = "-"

\* C14 (as stated): title wrapping never splits a word across lines: each
\* whitespace-delimited word of the title stands whole on a single wrapped
\* line, the line breaks falling only at whitespace.
C14_NoWordSplit ==
    pg_pc \in {"draw", "qr"} =>
        \A w \in WordsOf(pg_title) : WholeOnALine(w, wrapped_title)

\* C14 (amended): title wrapping never splits a word of at most 30
\* characters that holds no hyphen: each such word of the title stands whole
\* on a single wrapped line.  A longer word is cut at the budget and a
\* hyphenated word may be broken after a hyphen.
C14_ShortPlainWordsWhole ==
    pg_pc \in {"draw", "qr"} =>
        \A w \in WordsOf(pg_title) :
            (Len(w) <= 30 /\ ~HasHyphen(w)) => WholeOnALine(w, wrapped_title)

\* C14 witness: the title with a hyphenated word is wrapped into two lines:
\* its plain words stand whole and state-of-the-art is broken after a hyphen.
C14_Witness ==
    /\ pg_pc = "qr"
    /\ pg_title = TitleHyphens
    /\ Len(wrapped_title) = 2
    /\ WholeOnALine(<<"s", "h", "o", "w">>, wrapped_title)
    /\ \E w \in WordsOf(pg_title) : ~WholeOnALine(w, wrapped_title)

\* C15: create_full_page_image called with its default arguments returns an
\* RGBA canvas of exactly 2480 x 3508 pixels (A4 at 300 DPI), whatever the
\* title and the URL.
C15_DefaultCanvasA4 ==
    pg_pc \in {"wrap", "draw", "qr"} =>
        pg_img = [mode |-> "RGBA", width |-> 2480, height |-> 3508]

-----------------------------------------------------------------------------
(* SpecGui: QRCodeMakerGUI (src/src/main.py).  The user edits the entries  *)
(* and clicks the two generate buttons; a click on a disabled button       *)
(* reaches no handler.  A worker thread runs beside the event loop and     *)
(* hands _processing_complete to root.after; the event loop runs it.  The  *)
(* font settings are passed through to the worker and change no outcome    *)
(* (get_font never raises), so they are left out.                          *)

MaxClicks == 2

GuiTitles == {<<>>, UrlBlank, TitleAPadded}
GuiUrls == {<<>>, UrlB, UrlTooLong}
GuiCsvPaths ==
    { NoCsv,
      [at |-> "missing", rows |-> <<>>],
      [at |-> "file", rows |-> << <<T_Title, T_URL>>, <<TitleA, UrlA>> >>],
      [at |-> "file", rows |-> << <<TitleA, UrlA>>, <<TitleB, UrlTooLong>> >>] }

\* process_csv(csv_path, ...) raises: the file cannot be opened, or the
\* composition of a row that is not skipped raises.
process_csv_raises(csv) ==
    \/ csv.at # "file"
    \/ \E i \in 1..Len(csv.rows) :
          /\ ~EntryTooShort(csv.rows[i])
          /\ ~UrlMissing(EntryUrl(csv.rows[i]))
          /\ create_full_page_image(EntryTitle(csv.rows[i]),
                                    EntryUrl(csv.rows[i])).raised # "none"

InitGui ==
    /\ single_title = <<>> /\ single_url = <<>> /\ csv_file_path = NoCsv
    /\ single_button = "normal" /\ csv_process_button = "normal"
    /\ progress = "stopped" /\ status_label = "ready" /\ thread = NoThread
    /\ after_queue = <<>> /\ dialog = "none" /\ clicks = 0
    /\ last_button = "none" /\ work_calls = <<>>
    /\ CsvIdle /\ CleanIdle /\ QrIdle /\ FitIdle /\ PasteIdle /\ ScaleIdle /\ PageIdle /\ FontIdle

guiOther == <<csvVars, cleanVars, qrVars, fitVars, pasteVars, scaleVars, pageVars, fontVars>>

\* The user types a title.
EditTitle ==
    /\ \E t \in GuiTitles \ {single_title} : single_title' = t
    /\ UNCHANGED <<single_url, csv_file_path, single_button, csv_process_button,
                   progress, status_label, thread, after_queue, dialog, clicks,
                   last_button, work_calls, guiOther>>

\* The user types a URL.
EditUrl ==
    /\ \E u \in GuiUrls \ {single_url} : single_url' = u
    /\ UNCHANGED <<single_title, csv_file_path, single_button, csv_process_button,
                   progress, status_label, thread, after_queue, dialog, clicks,
                   last_button, work_calls, guiOther>>

\* browse_csv: the user picks a CSV path (or types one).
BrowseCsv ==
    /\ \E c \in GuiCsvPaths \ {csv_file_path} : csv_file_path' = c
    /\ UNCHANGED <<single_title, single_url, single_button, csv_process_button,
                   progress, status_label, thread, after_queue, dialog, clicks,
                   last_button, work_calls, guiOther>>

\* A slip: the single button is never disabled, its handler runs on any click.
SingleClicked_Always ==
    /\ clicks < MaxClicks
    /\ clicks' = clicks + 1
    /\ last_button' = "single"

\* A click on the single button reaches generate_single_qr.
SingleClicked ==
    /\ single_button = "normal"
    /\ clicks < MaxClicks
    /\ clicks' = clicks + 1
    /\ last_button' = "single"

\* A click on the CSV button reaches process_qr_codes.
CsvClicked ==
    /\ csv_process_button = "normal"
    /\ clicks < MaxClicks
    /\ clicks' = clicks + 1
    /\ last_button' = "csv"

\* A click whose validation fails: the error is shown and the handler returns.
Rejected(message) ==
    /\ dialog' = message
    /\ UNCHANGED <<single_title, single_url, csv_file_path, single_button,
                   csv_process_button, progress, status_label, thread,
                   after_queue, work_calls, guiOther>>

\* validate_single_inputs, lines 154-156
ClickSingleNoTitle ==
    /\ SingleClicked
    /\ strip(single_title) = <<>>
    /\ Rejected("Please enter a title")

\* A slip: the URL is not validated, the run starts without one.
ClickSingleNoUrl_Starts ==
    /\ SingleClicked
    /\ strip(single_title) # <<>>
    /\ strip(single_url) = <<>>
    /\ single_button' = "disabled"
    /\ csv_process_button' = "disabled"
    /\ progress' = "running"
    /\ status_label' = "Generating single QR code..."
    /\ thread' = [target |-> "_process_single_thread",
                  title |-> strip(single_title), url |-> strip(single_url)]
    /\ UNCHANGED <<single_title, single_url, csv_file_path, after_queue, dialog,
                   work_calls, guiOther>>

\* validate_single_inputs, lines 158-160
ClickSingleNoUrl ==
    /\ SingleClicked
    /\ strip(single_title) # <<>>
    /\ strip(single_url) = <<>>
    /\ Rejected("Please enter a URL")

\* validate_single_inputs, lines 162-169: os.makedirs raises
ClickSingleNoDir ==
    /\ SingleClicked
    /\ strip(single_title) # <<>>
    /\ strip(single_url) # <<>>
    /\ Rejected("Could not create save directory")

\* generate_single_qr, lines 198-215: the UI is disabled and the worker
\* started with the trimmed title and URL.
ClickSingleStart ==
    /\ SingleClicked
    /\ strip(single_title) # <<>>
    /\ strip(single_url) # <<>>
    /\ single_button' = "disabled"
    /\ csv_process_button' = "disabled"
    /\ progress' = "running"
    /\ status_label' = "Generating single QR code..."
    /\ thread' = [target |-> "_process_single_thread",
                  title |-> strip(single_title), url |-> strip(single_url)]
    /\ UNCHANGED <<single_title, single_url, csv_file_path, after_queue, dialog,
                   work_calls, guiOther>>

\* validate_csv_inputs, lines 175-177
ClickCsvNoFile ==
    /\ CsvClicked
    /\ csv_file_path.at = "none"
    /\ Rejected("Please select a CSV file")

\* validate_csv_inputs, lines 179-181
ClickCsvMissing ==
    /\ CsvClicked
    /\ csv_file_path.at = "missing"
    /\ Rejected("CSV file does not exist")

\* validate_csv_inputs, lines 183-190: os.makedirs raises
ClickCsvNoDir ==
    /\ CsvClicked
    /\ csv_file_path.at = "file"
    /\ Rejected("Could not create save directory")

\* process_qr_codes, lines 221-237
ClickCsvStart ==
    /\ CsvClicked
    /\ csv_file_path.at = "file"
    /\ single_button' = "disabled"
    /\ csv_process_button' = "disabled"
    /\ progress' = "running"
    /\ status_label' = "Generating QR codes from CSV..."
    /\ thread' = [target |-> "_process_csv_thread", csv |-> csv_file_path]
    /\ UNCHANGED <<single_title, single_url, csv_file_path, after_queue, dialog,
                   work_calls, guiOther>>

\* The worker ends: the thread is over and _processing_complete is queued.
WorkerEnds(call, success, message) ==
    /\ work_calls' = Append(work_calls, call)
    /\ after_queue' = Append(after_queue, [success |-> success, message |-> message])
    /\ thread' = NoThread
    /\ UNCHANGED <<single_title, single_url, csv_file_path, single_button,
                   csv_process_button, progress, status_label, dialog, clicks,
                   last_button, guiOther>>

\* _process_single_thread, lines 241-254
WorkerSingleSucceeds ==
    /\ thread.target = "_process_single_thread"
    /\ create_full_page_image(thread.title, thread.url).raised = "none"
    /\ WorkerEnds([fn |-> "create_full_page_image"], TRUE,
                  "Single QR code generated successfully")

\* _process_single_thread, lines 241-246 and 256-258
WorkerSingleFails ==
    /\ thread.target = "_process_single_thread"
    /\ create_full_page_image(thread.title, thread.url).raised # "none"
    /\ WorkerEnds([fn |-> "create_full_page_image"], FALSE, "Error")

\* _process_csv_thread, lines 262-266
WorkerCsvSucceeds ==
    /\ thread.target = "_process_csv_thread"
    /\ ~process_csv_raises(thread.csv)
    /\ WorkerEnds([fn |-> "process_csv"], TRUE,
                  "QR codes from CSV generated successfully!")

\* A slip: the worker has no except branch; the thread dies of the exception.
WorkerCsvFails_Uncaught ==
    /\ thread.target = "_process_csv_thread"
    /\ process_csv_raises(thread.csv)
    /\ work_calls' = Append(work_calls, [fn |-> "process_csv"])
    /\ thread' = NoThread
    /\ UNCHANGED <<single_title, single_url, csv_file_path, single_button,
                   csv_process_button, progress, status_label, after_queue,
                   dialog, clicks, last_button, guiOther>>

\* _process_csv_thread, lines 262-263 and 268-270
WorkerCsvFails ==
    /\ thread.target = "_process_csv_thread"
    /\ process_csv_raises(thread.csv)
    /\ WorkerEnds([fn |-> "process_csv"], FALSE, "Error")

\* _processing_complete(success, message), run by the event loop
ProcessingComplete ==
    /\ after_queue # <<>>
    /\ after_queue' = Tail(after_queue)
    /\ progress' = "stopped"
    /\ single_button' = "normal"
    /\ csv_process_button' = "normal"
    /\ status_label' = Head(after_queue).message
    /\ dialog' = IF Head(after_queue).success THEN "Success" ELSE "Error"
    /\ UNCHANGED <<single_title, single_url, csv_file_path, thread, clicks,
                   last_button, work_calls, guiOther>>

WorkerStep ==
    \/ WorkerSingleSucceeds
    \/ WorkerSingleFails
    \/ WorkerCsvSucceeds
    \/ WorkerCsvFails

NextGui ==
    \/ EditTitle
    \/ EditUrl
    \/ BrowseCsv
    \/ ClickSingleNoTitle
    \/ ClickSingleNoUrl
    \/ ClickSingleNoDir
    \/ ClickSingleStart
    \/ ClickCsvNoFile
    \/ ClickCsvMissing
    \/ ClickCsvNoDir
    \/ ClickCsvStart
    \/ WorkerStep
    \/ ProcessingComplete

\* A started thread runs to its end, and the event loop runs the callbacks
\* it is given.
SpecGui ==
    /\ InitGui
    /\ [][NextGui]_vars
    /\ WF_vars(WorkerStep)
    /\ WF_vars(ProcessingComplete)

\* A run has started and _processing_complete has not yet run for it.
RunInProgress == thread # NoThread \/ after_queue # <<>>

\* C20: both generate buttons are disabled from the moment a generation run
\* starts until _processing_complete runs, and every started run eventually
\* reaches _processing_complete, after a success and after a failure of the
\* worker, which re-enables both buttons and stops the progress bar.
C20_DisabledUntilComplete ==
    /\ [](RunInProgress =>
            /\ single_button = "disabled"
            /\ csv_process_button = "disabled"
            /\ progress = "running")
    /\ [][(RunInProgress /\ ~RunInProgress') =>
            /\ single_button' = "normal"
            /\ csv_process_button' = "normal"
            /\ progress' = "stopped"]_vars
    /\ [](single_button = "disabled" \/ csv_process_button = "disabled"
            => RunInProgress)
    /\ \A ok \in BOOLEAN :
          (after_queue # <<>> /\ Head(after_queue).success = ok) ~>
              (/\ ~RunInProgress
               /\ single_button = "normal"
               /\ csv_process_button = "normal"
               /\ progress = "stopped")
    /\ RunInProgress ~> ~RunInProgress

\* C20 witness: a run whose worker failed has reached _processing_complete:
\* the error is shown, the buttons are enabled and the progress bar stopped.
C20_Witness ==
    /\ clicks >= 1
    /\ work_calls # <<>>
    /\ ~RunInProgress
    /\ dialog = "Error"
    /\ status_label = "Error"
    /\ single_button = "normal"
    /\ csv_process_button = "normal"
    /\ progress = "stopped"

\* The messages of the validation errors.
ValidationErrors ==
    { "Please enter a title", "Please enter a URL", "Please select a CSV file",
      "CSV file does not exist", "Could not create save directory" }

\* The inputs of the button clicked fail validation: no title or no URL in
\* single mode, no CSV selected or a CSV path that does not exist in batch
\* mode.
InputsInvalid(button) ==
    \/ button = "single" /\ (~HasText(single_title) \/ ~HasText(single_url))
    \/ button = "csv" /\ csv_file_path.at \in {"none", "missing"}

\* C21: a run whose inputs fail validation does no work: an error is shown,
\* no worker thread is started, process_csv and the composer are not called,
\* and the buttons stay enabled.
C21_InvalidInputsDoNoWork ==
    [][(clicks' = clicks + 1 /\ InputsInvalid(last_button')) =>
          /\ dialog' \in ValidationErrors
          /\ thread = NoThread /\ thread' = NoThread
          /\ after_queue' = after_queue
          /\ work_calls' = work_calls
          /\ single_button' = "normal" /\ csv_process_button' = "normal"
          /\ progress' = "stopped"]_vars

\* C21 witness: the single button was clicked with a title and no URL: the
\* error is shown, nothing runs and nothing was called.
C21_Witness ==
    /\ clicks = 1 /\ last_button = "single"
    /\ HasText(single_title) /\ single_url = <<>>
    /\ dialog = "Please enter a URL"
    /\ thread = NoThread /\ work_calls = <<>>
    /\ single_button = "normal" /\ csv_process_button = "normal"

\* C25: at most one worker thread runs at any time: between the start of a
\* run and the execution of _processing_complete for it no click on either
\* generate button reaches its handler, so no second run starts and two runs
\* never write to the output directory at the same time.
C25_OneWorkerAtATime ==
    /\ [][clicks' # clicks => ~RunInProgress]_vars
    /\ [][(thread' # NoThread /\ thread' # thread) => thread = NoThread]_vars
    /\ [](thread # NoThread => after_queue = <<>>)
    /\ [](Len(after_queue) <= 1)

\* C25 witness: a second run is under way, started after the first one was
\* completed.
C25_Witness ==
    /\ clicks = 2
    /\ Len(work_calls) = 1
    /\ thread # NoThread
    /\ after_queue = <<>>

\* C23: for an empty title the title wrapper returns no lines and the
\* vertical cursor does not advance: it stays at the top margin (300), so the
\* QR's y is the top margin plus 100, and no title text is drawn.
C23_EmptyTitleCursorStays ==
    pg_title = <<>> =>
        /\ pg_pc \in {"draw", "qr"} =>
              (wrapped_title = <<>> /\ drawn = <<>> /\ current_y = 300)
        /\ pg_pc \in {"url", "done"} =>
              (wrapped_title = <<>> /\ drawn = <<>> /\ qr_y = 300 + 100)

\* C23 witness: a page with a blank title is composed: the title trimmed to
\* the empty text, nothing drawn for it, the QR at y 400.
C23_Witness ==
    /\ pg_pc = "done"
    /\ pg_raw = UrlBlank
    /\ pg_title = <<>>
    /\ drawn = <<>>
    /\ qr_y = 400
    /\ url_drawn # <<>>

\* C24: the URL text block starts a fixed padding of exactly 100 pixels
\* below the QR block: the y of the first URL line is the bottom edge of the
\* bordered QR as pasted on the page plus 100, for every title and URL.
C24_UrlPadding100 ==
    (pg_pc = "done" /\ url_drawn # <<>>) =>
        url_drawn[1].y = qr_box.y + qr_box.height + 100

=============================================================================
